---- MODULE Spec2Model ----
(***************************************************************************)
(* Model of src/controller.js (class Controller): the pending queue of raw *)
(* input events, the processEvents drain, the mouse / wheel / touch        *)
(* handlers and the two-finger pinch / pan classification; and of          *)
(* src/unnamed/part_000 (class ArcballCamera): rotate, zoom, pan and the   *)
(* derived camera matrices.  Spec runs the controller, SpecCamera the      *)
(* camera.                                                                 *)
(*                                                                         *)
(* Numbers.  Pixel coordinates are integers.  A value the code obtains     *)
(* with a square root or a halving is kept exactly:                        *)
(*   - vec2.dot(normalize(a), normalize(b)) is the pair [num, den2] that   *)
(*     stands for num / sqrt(den2);                                        *)
(*   - pointDist(..) - pointDist(..) is the pair [newDist2, oldDist2] that *)
(*     stands for sqrt(newDist2) - sqrt(oldDist2);                         *)
(*   - vec2.lerp(a, b, 0.5) is kept in half pixels (twice its value).      *)
(***************************************************************************)
EXTENDS Integers, Sequences, FiniteSets, TLC

VARIABLES
    canvas,            \* this.canvas: "null" until registerForCanvas
    listeners,         \* per canvas, the listeners added for each event type
    globalT,           \* whether the host realm binds the identifier t
    callbacks,         \* the user callback fields that are not null
    registeredEvents,  \* this.registeredEvents: the pending queue
    touches,           \* this.touches, in property enumeration order
    prevMouse,         \* this.prevMouse
    curMouse,          \* this.curMouse
    arrived,           \* history: number of raw events delivered so far
    dispatched,        \* history: how often each event's handler was invoked
    passLog,           \* history: the handler invocations of the last pass
    pending,           \* history: the queue as the last pass found it
    invoked,           \* history: user callbacks invoked by the last step
    live,              \* history: identifiers started and not ended since
    rotation,          \* ArcballCamera: this.rotation, <<x, y, z, w>>
    translation,       \* this.translation
    centerTranslation, \* this.centerTranslation
    camera,            \* this.camera
    invCamera,         \* this.invCamera
    camLog,            \* history: the last two camera calls
    camCalls           \* history: number of camera calls so far

ctlVars == <<canvas, listeners, globalT, callbacks, registeredEvents, touches, prevMouse,
             curMouse, arrived, dispatched, passLog, pending, invoked, live>>

camVars == <<rotation, translation, centerTranslation, camera, invCamera,
             camLog, camCalls>>

vars == <<canvas, listeners, globalT, callbacks, registeredEvents, touches, prevMouse,
          curMouse, arrived, dispatched, passLog, pending, invoked, live,
          rotation, translation, centerTranslation, camera, invCamera,
          camLog, camCalls>>

(***************************************************************************)
(* Bounds of the model.                                                    *)
(***************************************************************************)
MaxEvents == 3      \* raw input events delivered in one run
MaxDispatch == 4    \* a pass starts only while no event was dispatched this often
MaxRegistrations == 2   \* registerForCanvas calls in one run
MaxCalls == 3       \* rotate / zoom / pan calls in one run of the camera
MaxDen == 5         \* largest denominator kept in the rotation quaternion

(***************************************************************************)
(* Inputs.                                                                 *)
(***************************************************************************)
\* The canvases the application may register; they are laid out at the same
\* place of the page, so getBoundingClientRect() gives rect for each.
Canvases == {"A", "B"}

rect == [left |-> 8, top |-> 8]     \* canvas.getBoundingClientRect()

pA == <<0, 100>>
pB == <<100, 100>>
qA == <<10, 100>>
qB == <<90, 100>>
rA == <<5, 105>>
rB == <<105, 105>>
sB == <<95, 105>>

\* Touch.identifier is a WebIDL long that the host picks.  An identifier from
\* 0 is an array-index property key; a negative one is an ordinary string key.
MousePoints == {pA}
WheelDeltas == {-50, 50}

Client(p) == <<p[1] + rect.left, p[2] + rect.top>>

Touch(id, p) == [identifier |-> id, clientX |-> Client(p)[1], clientY |-> Client(p)[2]]

NoTouches == <<>>

MouseEvt(type, p) ==
    [type |-> type, clientX |-> Client(p)[1], clientY |-> Client(p)[2],
     deltaY |-> 0, changedTouches |-> NoTouches]

WheelEvt(d) ==
    [type |-> "wheel", clientX |-> 0, clientY |-> 0, deltaY |-> d,
     changedTouches |-> NoTouches]

TouchEvt(type, list) ==
    [type |-> type, clientX |-> 0, clientY |-> 0, deltaY |-> 0,
     changedTouches |-> list]

StartLists ==
    {<<Touch(-1, pA)>>, <<Touch(-1, pA), Touch(-2, pB)>>}

MoveLists ==
    {<<Touch(-1, qA)>>, <<Touch(-2, qB)>>,
     <<Touch(-1, qA), Touch(-2, qB)>>,
     <<Touch(-1, rA), Touch(-2, rB)>>,
     <<Touch(-1, rA), Touch(-2, sB)>>}

EndLists == {<<Touch(-1, qA)>>}

CancelLists == {<<Touch(-2, qB)>>}

RawEvents ==
    {MouseEvt("mousemove", p) : p \in MousePoints}
    \cup {MouseEvt("mousedown", pB)}
    \cup {WheelEvt(d) : d \in WheelDeltas}
    \cup {TouchEvt("touchstart", l) : l \in StartLists}
    \cup {TouchEvt("touchmove", l) : l \in MoveLists}
    \cup {TouchEvt("touchend", l) : l \in EndLists}
    \cup {TouchEvt("touchcancel", l) : l \in CancelLists}

CallbackNames == {"mousemove", "press", "wheel", "pinch", "twoFingerDrag"}

CallbackConfigs == {CallbackNames, {"mousemove", "press", "twoFingerDrag"}}

(***************************************************************************)
(* A plain JavaScript object used as a map: the sequence of its own        *)
(* properties in enumeration order (array-index keys ascending, then the   *)
(* other keys in insertion order).                                         *)
(***************************************************************************)
undefined == <<>>

EmptyObject == <<>>

IsArrayIndex(k) == k >= 0

HasKey(obj, k) == \E i \in 1..Len(obj) : obj[i].key = k

Get(obj, k) ==
    IF HasKey(obj, k)
    THEN obj[CHOOSE i \in 1..Len(obj) : obj[i].key = k].val
    ELSE undefined

Put(obj, k, v) ==
    IF HasKey(obj, k)
    THEN [i \in 1..Len(obj) |->
            IF obj[i].key = k THEN [key |-> k, val |-> v] ELSE obj[i]]
    ELSE IF IsArrayIndex(k)
    THEN LET n == Cardinality({i \in 1..Len(obj) :
                        IsArrayIndex(obj[i].key) /\ obj[i].key < k})
         IN SubSeq(obj, 1, n) \o <<[key |-> k, val |-> v]>>
                \o SubSeq(obj, n + 1, Len(obj))
    ELSE Append(obj, [key |-> k, val |-> v])

\* A slip: removing by position, where an absent key yields position -1 and
\* the last property goes.
DeleteOrPop(obj, k) ==
    IF \E i \in 1..Len(obj) : obj[i].key = k
    THEN SelectSeq(obj, LAMBDA e : e.key # k)
    ELSE SubSeq(obj, 1, Len(obj) - 1)

Delete(obj, k) == SelectSeq(obj, LAMBDA e : e.key # k)

Keys(obj) == {obj[i].key : i \in 1..Len(obj)}

Values(obj) == [i \in 1..Len(obj) |-> obj[i].val]

(***************************************************************************)
(* vec2 arithmetic as the handlers use it.                                 *)
(***************************************************************************)
sub(a, b) == <<a[1] - b[1], a[2] - b[2]>>

dot(a, b) == a[1] * b[1] + a[2] * b[2]

lenSq(a) == dot(a, a)

\* 2 * vec2.lerp(a, b, 0.5), that is a + b: the halving is kept exact.
lerpHalves(a, b) == <<a[1] + b[1], a[2] + b[2]>>

\* vec2.dot(normalize(a), normalize(b)): normalize maps a vector of length
\* at most 0.00001 to the zero vector.  The result num / sqrt(den2).
normDot(a, b) ==
    IF lenSq(a) = 0 \/ lenSq(b) = 0
    THEN [num |-> 0, den2 |-> 1]
    ELSE [num |-> dot(a, b), den2 |-> lenSq(a) * lenSq(b)]

\* Math.abs(c) > 0.5
AbsGtHalf(c) == 4 * c.num * c.num > c.den2

\* Math.sign(c)
Sign(c) == IF c.num > 0 THEN 1 ELSE IF c.num < 0 THEN -1 ELSE 0

\* Controller.pointDist(a, b), squared.
pointDistSq(a, b) == lenSq(sub(b, a))

IsSquare(n) == \E r \in 0..n : r * r = n

Sqrt(n) == CHOOSE r \in 0..n : r * r = n

(***************************************************************************)
(* The handlers.  Each takes the fields s = [touches, prevMouse, curMouse] *)
(* it finds and yields the fields it leaves behind, the user callbacks it  *)
(* invoked, in order, and the exception it threw ("none" when it returned).*)
(***************************************************************************)
Call(fn, args) == [fn |-> fn, args |-> args]

Fields(t, pm, cm) == [touches |-> t, prevMouse |-> pm, curMouse |-> cm]

Outcome(t, pm, cm, calls, fault) ==
    [fields |-> Fields(t, pm, cm), calls |-> calls, fault |-> fault]

\* [t.clientX - rect.left, t.clientY - rect.top]
TouchPoint(t) == <<t.clientX - rect.left, t.clientY - rect.top>>

\* for (i < changedTouches.length) obj[t.identifier] = [x, y], from entry i on
RECURSIVE PutChanged(_, _, _)
PutChanged(obj, list, i) ==
    IF i > Len(list) THEN obj
    ELSE PutChanged(Put(obj, list[i].identifier, TouchPoint(list[i])), list, i + 1)

\* for (t in from) if (!(t in obj)) obj[t] = from[t], from entry i on
RECURSIVE PutMissing(_, _, _)
PutMissing(obj, from, i) ==
    IF i > Len(from) THEN obj
    ELSE PutMissing(IF HasKey(obj, from[i].key) THEN obj
                    ELSE Put(obj, from[i].key, from[i].val), from, i + 1)

\* for (i < changedTouches.length) delete obj[t.identifier], from entry i on
RECURSIVE DeleteChanged(_, _, _)
DeleteChanged(obj, list, i) ==
    IF i > Len(list) THEN obj
    ELSE DeleteChanged(Delete(obj, list[i].identifier), list, i + 1)

onMouseMove(s, evt) ==
    LET cur == <<evt.clientX - rect.left, evt.clientY - rect.top>>
    IN Outcome(s.touches, cur, cur,
               IF "mousemove" \in callbacks
               THEN <<Call("mousemove", <<s.prevMouse, cur>>)>> ELSE <<>>,
               "none")

onMouseDown(s, evt) ==
    LET cur == <<evt.clientX - rect.left, evt.clientY - rect.top>>
    IN Outcome(s.touches, s.prevMouse, cur,
               IF "press" \in callbacks
               THEN <<Call("press", <<cur>>)>> ELSE <<>>,
               "none")

\* A slip: the scroll delta passed on as it came.
onMouseWheelRaw(s, evt) ==
    Outcome(s.touches, s.prevMouse, s.curMouse,
            IF "wheel" \in callbacks
            THEN <<Call("wheel", <<evt.deltaY>>)>> ELSE <<>>,
            "none")

onMouseWheel(s, evt) ==
    Outcome(s.touches, s.prevMouse, s.curMouse,
            IF "wheel" \in callbacks
            THEN <<Call("wheel", <<0 - evt.deltaY>>)>> ELSE <<>>,
            "none")

\* A slip: press for every new contact, however many the event carries.
onTouchStartEach(s, evt) ==
    LET list == evt.changedTouches
    IN Outcome(PutChanged(s.touches, list, 1), s.prevMouse, s.curMouse,
               IF "press" \in callbacks
               THEN [i \in 1..Len(list) |-> Call("press", <<TouchPoint(list[i])>>)]
               ELSE <<>>,
               "none")

onTouchStart(s, evt) ==
    LET list == evt.changedTouches
    IN Outcome(PutChanged(s.touches, list, 1), s.prevMouse, s.curMouse,
               IF Len(list) = 1 /\ "press" \in callbacks
               THEN <<Call("press", <<TouchPoint(list[1])>>)>> ELSE <<>>,
               "none")

onTouchEnd(s, evt) ==
    Outcome(DeleteChanged(s.touches, evt.changedTouches, 1),
            s.prevMouse, s.curMouse, <<>>, "none")

\* Lines 128-152: the old and the new position lists of the multi-touch path.
curTouchesOf(s, evt) ==
    PutMissing(PutChanged(EmptyObject, evt.changedTouches, 1), s.touches, 1)

oldTouchesOf(s, evt) == Values(s.touches)

newTouchesOf(s, evt) == Values(curTouchesOf(s, evt))

\* Lines 139 and 149: for (t in ...) assigns the identifier t, which the class
\* body (strict code) does not declare: the first assignment throws unless the
\* host realm binds t.  Lines 156-159 index entries 0 and 1 of both lists.
MultiTouchFault(s, evt) ==
    IF ~globalT /\ (Len(s.touches) > 0 \/ Len(curTouchesOf(s, evt)) > 0)
    THEN "ReferenceError"
    ELSE IF Len(newTouchesOf(s, evt)) < 2 \/ Len(oldTouchesOf(s, evt)) < 2
    THEN "TypeError"
    ELSE "none"

\* Lines 155-199: the callbacks of the pinch / pan classification.
Classify(oldTouches, newTouches) ==
    LET motionVectors == <<sub(newTouches[1], oldTouches[1]),
                           sub(newTouches[2], oldTouches[2])>>
        pinchAxis == sub(oldTouches[2], oldTouches[1])
        panAxis == lerpHalves(motionVectors[1], motionVectors[2])
        pinchMotion == <<normDot(pinchAxis, motionVectors[1]),
                         normDot(pinchAxis, motionVectors[2])>>
        panMotion == <<normDot(panAxis, motionVectors[1]),
                       normDot(panAxis, motionVectors[2])>>
    IN IF "pinch" \in callbacks
          /\ AbsGtHalf(pinchMotion[1]) /\ AbsGtHalf(pinchMotion[2])
          /\ Sign(pinchMotion[1]) # Sign(pinchMotion[2])
       THEN <<Call("pinch",
                   <<[newDist2 |-> pointDistSq(newTouches[1], newTouches[2]),
                      oldDist2 |-> pointDistSq(oldTouches[1], oldTouches[2])]>>)>>
       ELSE IF "twoFingerDrag" \in callbacks
          /\ AbsGtHalf(panMotion[1]) /\ AbsGtHalf(panMotion[2])
          /\ Sign(panMotion[1]) = Sign(panMotion[2])
       THEN LET panAmount == lerpHalves(motionVectors[1], motionVectors[2])
            IN <<Call("twoFingerDrag", <<<<panAmount[1], 0 - panAmount[2]>>>>)>>
       ELSE <<>>

\* A slip: the single-touch path without the update loop of lines 203-207.
onTouchMoveStale(s, evt) ==
    Outcome(s.touches, s.prevMouse, s.curMouse,
            IF Len(s.touches) = 1 /\ "mousemove" \in callbacks
            THEN <<Call("mousemove",
                        <<Get(s.touches, evt.changedTouches[1].identifier),
                          TouchPoint(evt.changedTouches[1])>>)>>
            ELSE <<>>,
            "none")

onTouchMove(s, evt) ==
    LET list == evt.changedTouches
        numTouches == Len(s.touches)
        updated == PutChanged(s.touches, list, 1)
    IN IF numTouches = 1
       THEN Outcome(updated, s.prevMouse, s.curMouse,
                    IF "mousemove" \in callbacks
                    THEN <<Call("mousemove",
                                <<Get(s.touches, list[1].identifier),
                                  TouchPoint(list[1])>>)>>
                    ELSE <<>>,
                    "none")
       ELSE IF MultiTouchFault(s, evt) # "none"
       THEN Outcome(s.touches, s.prevMouse, s.curMouse, <<>>,
                    MultiTouchFault(s, evt))
       ELSE Outcome(updated, s.prevMouse, s.curMouse,
                    Classify(oldTouchesOf(s, evt), newTouchesOf(s, evt)), "none")

\* Lines 42-48: the handler each listener binds to the queued event.
CallbackFor(type) ==
    CASE type = "mousemove" -> "onMouseMove"
      [] type = "mousedown" -> "onMouseDown"
      [] type = "wheel" -> "onMouseWheel"
      [] type = "touchstart" -> "onTouchStart"
      [] type = "touchmove" -> "onTouchMove"
      [] type = "touchcancel" -> "onTouchEnd"
      [] type = "touchend" -> "onTouchEnd"

\* event.callback(event.jsEvent)
Invoke(s, event) ==
    CASE event.callback = "onMouseMove" -> onMouseMove(s, event.jsEvent)
      [] event.callback = "onMouseDown" -> onMouseDown(s, event.jsEvent)
      [] event.callback = "onMouseWheel" -> onMouseWheel(s, event.jsEvent)
      [] event.callback = "onTouchStart" -> onTouchStart(s, event.jsEvent)
      [] event.callback = "onTouchMove" -> onTouchMove(s, event.jsEvent)
      [] event.callback = "onTouchEnd" -> onTouchEnd(s, event.jsEvent)

\* The record the history keeps of one handler invocation.
Dispatched(event, s, r) ==
    [seq |-> event.seq, callback |-> event.callback, jsEvent |-> event.jsEvent,
     pre |-> s, post |-> r.fields, calls |-> r.calls, fault |-> r.fault]

\* Lines 54-57: for (const event of this.registeredEvents) from entry i on;
\* an exception of a handler ends the loop and leaves processEvents.
RECURSIVE Loop(_, _, _, _)
Loop(s, queue, i, log) ==
    IF i > Len(queue)
    THEN [fields |-> s, log |-> log, fault |-> "none"]
    ELSE LET r == Invoke(s, queue[i])
             entry == Dispatched(queue[i], s, r)
         IN IF r.fault # "none"
            THEN [fields |-> r.fields, log |-> Append(log, entry), fault |-> r.fault]
            ELSE Loop(r.fields, queue, i + 1, Append(log, entry))

\* Lines 52-59: the queue processEvents leaves behind; line 58 is reached
\* only when no handler threw.
AfterPass(queue, run) == IF run.fault = "none" THEN <<>> ELSE queue

RECURSIVE Flatten(_, _)
Flatten(log, i) ==
    IF i > Len(log) THEN <<>> ELSE log[i].calls \o Flatten(log, i + 1)

\* History: the identifiers whose touch-start was processed with no
\* touch-end / touch-cancel processed since, after entries i.. of a pass.
ChangedIds(evt) ==
    {evt.changedTouches[k].identifier : k \in 1..Len(evt.changedTouches)}

RECURSIVE LiveAfter(_, _, _)
LiveAfter(ids, log, i) ==
    IF i > Len(log) THEN ids
    ELSE LiveAfter(IF log[i].fault # "none" THEN ids
                   ELSE IF log[i].jsEvent.type = "touchstart"
                   THEN ids \cup ChangedIds(log[i].jsEvent)
                   ELSE IF log[i].jsEvent.type \in {"touchend", "touchcancel"}
                   THEN ids \ ChangedIds(log[i].jsEvent)
                   ELSE ids,
                   log, i + 1)

(***************************************************************************)
(* The state machine.                                                      *)
(***************************************************************************)
\* Lines 22-36: the fields the Controller constructor sets.
ControllerConstructed ==
    /\ canvas = "null"
    /\ listeners = [c \in Canvases |-> 0]
    /\ callbacks = {}
    /\ registeredEvents = <<>>
    /\ touches = EmptyObject
    /\ prevMouse = <<0, 0>>
    /\ curMouse = <<0, 0>>
    /\ arrived = 0
    /\ dispatched = <<>>
    /\ passLog = <<>>
    /\ pending = <<>>
    /\ invoked = <<>>
    /\ live = {}

\* No camera is constructed in the runs of the controller.
NoCamera ==
    /\ rotation = <<>>
    /\ translation = <<>>
    /\ centerTranslation = <<>>
    /\ camera = <<>>
    /\ invCamera = <<>>
    /\ camLog = <<>>
    /\ camCalls = 0

\* The constructor; the host realm may or may not bind the identifier t.
Init ==
    /\ ControllerConstructed
    /\ globalT \in BOOLEAN
    /\ NoCamera

\* The caller assigns the callback fields (file header, lines 1-17).
SetCallbacks(cfg) ==
    /\ canvas = "null"
    /\ callbacks = {}
    /\ callbacks' = cfg
    /\ invoked' = <<>>
    /\ UNCHANGED <<canvas, listeners, globalT, registeredEvents, touches,
                   prevMouse, curMouse, arrived, dispatched, passLog, pending,
                   live>>
    /\ UNCHANGED camVars

RECURSIVE Sum(_, _)
Sum(f, S) ==
    IF S = {} THEN 0
    ELSE LET c == CHOOSE x \in S : TRUE IN f[c] + Sum(f, S \ {c})

\* Lines 38-50: every call stores the canvas and adds one more listener for
\* each of the seven event types to it; nothing is removed or checked.
registerForCanvas(c) ==
    /\ Sum(listeners, Canvases) < MaxRegistrations
    /\ canvas' = c
    /\ listeners' = [listeners EXCEPT ![c] = @ + 1]
    /\ invoked' = <<>>
    /\ UNCHANGED <<globalT, callbacks, registeredEvents, touches, prevMouse,
                   curMouse, arrived, dispatched, passLog, pending, live>>
    /\ UNCHANGED camVars

\* One listener of lines 42-48 runs for the raw event e, arrival number seq:
\* it pushes {jsEvent, callback} onto the queue.
Listener(queue, e, seq) ==
    Append(queue, [jsEvent |-> e, callback |-> CallbackFor(e.type), seq |-> seq])

\* The n listeners a canvas has for the type of e run one after the other.
RECURSIVE Listeners(_, _, _, _)
Listeners(queue, e, seq, n) ==
    IF n = 0 THEN queue ELSE Listeners(Listener(queue, e, seq), e, seq, n - 1)

\* The canvas c fires the raw event e.
Deliver(e, c) ==
    /\ listeners[c] > 0
    /\ arrived < MaxEvents
    /\ registeredEvents' = Listeners(registeredEvents, e, arrived + 1, listeners[c])
    /\ invoked' = <<>>
    /\ arrived' = arrived + 1
    /\ dispatched' = Append(dispatched, 0)
    /\ UNCHANGED <<canvas, listeners, globalT, callbacks, touches, prevMouse,
                   curMouse, passLog, pending, live>>
    /\ UNCHANGED camVars

\* processEvents, called by the render loop between event deliveries.  A pass
\* over an empty queue changes nothing.
processEvents ==
    /\ registeredEvents # <<>>
    /\ \A i \in 1..Len(dispatched) : dispatched[i] < MaxDispatch
    /\ \E run \in {Loop(Fields(touches, prevMouse, curMouse), registeredEvents, 1, <<>>)} :
          /\ touches' = run.fields.touches
          /\ prevMouse' = run.fields.prevMouse
          /\ curMouse' = run.fields.curMouse
          /\ registeredEvents' = AfterPass(registeredEvents, run)
          /\ passLog' = run.log
          /\ invoked' = Flatten(run.log, 1)
          /\ dispatched' =
                [i \in 1..Len(dispatched) |->
                    dispatched[i]
                    + Cardinality({j \in 1..Len(run.log) : run.log[j].seq = i})]
          /\ live' = LiveAfter(live, run.log, 1)
    /\ pending' = registeredEvents
    /\ UNCHANGED <<canvas, listeners, globalT, callbacks, arrived>>
    /\ UNCHANGED camVars

Next ==
    \/ \E cfg \in CallbackConfigs : SetCallbacks(cfg)
    \/ \E c \in Canvases : registerForCanvas(c)
    \/ \E e \in RawEvents : \E c \in Canvases : Deliver(e, c)
    \/ processEvents

Spec == Init /\ [][Next]_vars

(***************************************************************************)
(* The arcball camera.  Its numbers are kept exactly, as fractions n/d in  *)
(* lowest terms with d > 0.  The three values a Float32Array slot holds    *)
(* besides the finite ones are fractions over zero: 1/0 is Infinity, -1/0  *)
(* is -Infinity and 0/0 is NaN, so that Infinity * 0 and Infinity -        *)
(* Infinity come out NaN as they do in the arrays of the library.          *)
(***************************************************************************)
RECURSIVE GCD(_, _)
GCD(a, b) == IF b = 0 THEN a ELSE GCD(b, a % b)

Abs(i) == IF i < 0 THEN 0 - i ELSE i

SignOf(i) == IF i < 0 THEN -1 ELSE IF i > 0 THEN 1 ELSE 0

\* The number n/d, d >= 0, in lowest terms.
Frac(n, d) ==
    IF d = 0 THEN [n |-> SignOf(n), d |-> 0]
    ELSE LET g == GCD(Abs(n), d) IN [n |-> n \div g, d |-> d \div g]

Num(i) == [n |-> i, d |-> 1]

Infinity == [n |-> 1, d |-> 0]

NaN == [n |-> 0, d |-> 0]

isNaN(a) == a.n = 0 /\ a.d = 0

isFinite(a) == a.d # 0

fNeg(a) == [n |-> 0 - a.n, d |-> a.d]

fAbs(a) == [n |-> Abs(a.n), d |-> a.d]

fMul(a, b) ==
    IF a.d = 1 /\ b.d = 1 THEN [n |-> a.n * b.n, d |-> 1] ELSE
    LET g1 == IF a.d = 0 \/ b.d = 0 THEN 1 ELSE GCD(Abs(a.n), b.d)
        g2 == IF a.d = 0 \/ b.d = 0 THEN 1 ELSE GCD(Abs(b.n), a.d)
    IN Frac((a.n \div g1) * (b.n \div g2), (a.d \div g2) * (b.d \div g1))

fAdd(a, b) ==
    IF a.d = 1 /\ b.d = 1 THEN [n |-> a.n + b.n, d |-> 1]
    ELSE IF a.d = 0 /\ b.d = 0 THEN (IF a.n = b.n THEN a ELSE NaN)
    ELSE IF a.d = 0 THEN a
    ELSE IF b.d = 0 THEN b
    ELSE LET g == GCD(a.d, b.d)
         IN Frac(a.n * (b.d \div g) + b.n * (a.d \div g), (a.d \div g) * b.d)

fSub(a, b) == fAdd(a, fNeg(b))

\* 1 / a
fRecip(a) ==
    IF a.d = 0 THEN (IF a.n = 0 THEN NaN ELSE Num(0))
    ELSE IF a.n = 0 THEN Infinity
    ELSE [n |-> SignOf(a.n) * a.d, d |-> Abs(a.n)]

fDiv(a, b) == fMul(a, fRecip(b))

\* a < b and a <= b; every comparison with NaN is false.
fLt(a, b) == ~isNaN(a) /\ ~isNaN(b) /\ a # b /\ fSub(a, b).n < 0

fLe(a, b) == ~isNaN(a) /\ ~isNaN(b) /\ (a = b \/ fSub(a, b).n < 0)

fGt(a, b) == fLt(b, a)

fGe(a, b) == fLe(b, a)

\* Math.sqrt, on the fractions whose root is a fraction.
IsSquareFrac(a) == a.d # 0 /\ a.n >= 0 /\ IsSquare(a.n) /\ IsSquare(a.d)

fSqrt(a) ==
    IF a.d = 0 THEN (IF a.n = 1 THEN Infinity ELSE NaN)
    ELSE IF a.n < 0 THEN NaN
    ELSE [n |-> Sqrt(a.n), d |-> Sqrt(a.d)]

(***************************************************************************)
(* The part of the vector library the camera calls.  A vector is a tuple   *)
(* of fractions; a mat4 is the tuple of its 16 slots, column after column, *)
(* slot i of the source being entry i + 1.                                 *)
(***************************************************************************)
EPSILON == Frac(1, 100000)          \* the normalize threshold 0.00001

\* The function f on 1..n as the tuple of its values.
Tuple(f, n) == SubSeq(f, 1, n)

Nums(v) == Tuple([i \in 1..Len(v) |-> Num(v[i])], Len(v))

RECURSIVE fSum(_, _)
fSum(v, i) == IF i > Len(v) THEN Num(0) ELSE fAdd(v[i], fSum(v, i + 1))

vecDot(a, b) == fSum(Tuple([i \in 1..Len(a) |-> fMul(a[i], b[i])], Len(a)), 1)

vecLen(a) == fSqrt(vecDot(a, a))

vecScale(a, k) == Tuple([i \in 1..Len(a) |-> fMul(a[i], k)], Len(a))

vecSub(a, b) == Tuple([i \in 1..Len(a) |-> fSub(a[i], b[i])], Len(a))

\* vec2.normalize / vec3.normalize: the zero vector below the threshold
vecNormalize(a) ==
    IF fGt(vecLen(a), EPSILON) THEN vecScale(a, fRecip(vecLen(a)))
    ELSE Tuple([i \in 1..Len(a) |-> Num(0)], Len(a))

vec3Cross(a, b) ==
    <<fSub(fMul(a[2], b[3]), fMul(a[3], b[2])),
      fSub(fMul(a[3], b[1]), fMul(a[1], b[3])),
      fSub(fMul(a[1], b[2]), fMul(a[2], b[1]))>>

\* quat.mul(a, b): the Hamilton product, a quaternion being <<x, y, z, w>>
quatMul(a, b) ==
    <<fSum(<<fMul(a[1], b[4]), fMul(a[4], b[1]), fMul(a[2], b[3]), fNeg(fMul(a[3], b[2]))>>, 1),
      fSum(<<fMul(a[2], b[4]), fMul(a[4], b[2]), fMul(a[3], b[1]), fNeg(fMul(a[1], b[3]))>>, 1),
      fSum(<<fMul(a[3], b[4]), fMul(a[4], b[3]), fMul(a[1], b[2]), fNeg(fMul(a[2], b[1]))>>, 1),
      fSum(<<fMul(a[4], b[4]), fNeg(fMul(a[1], b[1])), fNeg(fMul(a[2], b[2])),
             fNeg(fMul(a[3], b[3]))>>, 1)>>

\* quat.normalize: the identity quaternion below the threshold
quatNormalize(q) ==
    IF fGt(vecLen(q), EPSILON) THEN vecScale(q, fRecip(vecLen(q)))
    ELSE <<Num(0), Num(0), Num(0), Num(1)>>

\* Entry (row r, column c) of a mat4 and of a mat3 of 9 slots, r and c from 0.
El(m, r, c) == m[c * 4 + r + 1]

El3(m, r, c) == m[c * 3 + r + 1]

mat3Transpose(m) == Tuple([i \in 1..9 |-> El3(m, (i - 1) \div 3, (i - 1) % 3)], 9)

\* quat.fromMat of a mat3
quatFromMat(m) ==
    LET trace == fSum(<<El3(m, 0, 0), El3(m, 1, 1), El3(m, 2, 2)>>, 1)
    IN IF fGt(trace, Num(0))
       THEN LET root == fSqrt(fAdd(trace, Num(1)))
                invRoot == fDiv(Frac(1, 2), root)
            IN <<fMul(fSub(El3(m, 2, 1), El3(m, 1, 2)), invRoot),
                 fMul(fSub(El3(m, 0, 2), El3(m, 2, 0)), invRoot),
                 fMul(fSub(El3(m, 1, 0), El3(m, 0, 1)), invRoot),
                 fMul(Frac(1, 2), root)>>
       ELSE LET i0 == IF fGt(El3(m, 1, 1), El3(m, 0, 0)) THEN 1 ELSE 0
                i == IF fGt(El3(m, 2, 2), El3(m, i0, i0)) THEN 2 ELSE i0
                j == (i + 1) % 3
                k == (i + 2) % 3
                root == fSqrt(fAdd(fSub(fSub(El3(m, i, i), El3(m, j, j)), El3(m, k, k)),
                                   Num(1)))
                invRoot == fDiv(Frac(1, 2), root)
                part == [a \in {i, j, k} |->
                            IF a = i THEN fMul(Frac(1, 2), root)
                            ELSE fMul(fAdd(El3(m, i, a), El3(m, a, i)), invRoot)]
            IN <<part[0], part[1], part[2],
                 fMul(fSub(El3(m, k, j), El3(m, j, k)), invRoot)>>

mat4Identity ==
    Tuple([i \in 1..16 |-> IF (i - 1) \div 4 = (i - 1) % 4 THEN Num(1) ELSE Num(0)], 16)

\* mat4.translation(v)
mat4Translation(v) ==
    Tuple([i \in 1..16 |-> IF i \in 13..15 THEN v[i - 12] ELSE mat4Identity[i]], 16)

\* mat4.mul(a, b)
mat4Mul(a, b) ==
    Tuple([i \in 1..16 |->
              fSum(<<fMul(El(a, (i - 1) % 4, 0), El(b, 0, (i - 1) \div 4)),
                     fMul(El(a, (i - 1) % 4, 1), El(b, 1, (i - 1) \div 4)),
                     fMul(El(a, (i - 1) % 4, 2), El(b, 2, (i - 1) \div 4)),
                     fMul(El(a, (i - 1) % 4, 3), El(b, 3, (i - 1) \div 4))>>, 1)], 16)

\* mat4.fromQuat(q)
mat4FromQuat(q) ==
    LET x == q[1]  y == q[2]  z == q[3]  w == q[4]
        x2 == fAdd(x, x)  y2 == fAdd(y, y)  z2 == fAdd(z, z)
        xx == fMul(x, x2)  yx == fMul(y, x2)  yy == fMul(y, y2)
        zx == fMul(z, x2)  zy == fMul(z, y2)  zz == fMul(z, z2)
        wx == fMul(w, x2)  wy == fMul(w, y2)  wz == fMul(w, z2)
    IN <<fSub(fSub(Num(1), yy), zz), fAdd(yx, wz), fSub(zx, wy), Num(0),
         fSub(yx, wz), fSub(fSub(Num(1), xx), zz), fAdd(zy, wx), Num(0),
         fAdd(zx, wy), fSub(zy, wx), fSub(fSub(Num(1), xx), yy), Num(0),
         Num(0), Num(0), Num(0), Num(1)>>

\* The rows or columns left when index k of 0..3 is struck out.
Others(k) == CASE k = 0 -> <<1, 2, 3>> [] k = 1 -> <<0, 2, 3>>
               [] k = 2 -> <<0, 1, 3>> [] k = 3 -> <<0, 1, 2>>

\* The determinant of m without row r and column c.
Minor(m, r, c) ==
    LET rs == Others(r)
        cs == Others(c)
        e(a, b) == El(m, rs[a], cs[b])
    IN fSum(<<fMul(e(1, 1), fSub(fMul(e(2, 2), e(3, 3)), fMul(e(2, 3), e(3, 2)))),
              fNeg(fMul(e(1, 2), fSub(fMul(e(2, 1), e(3, 3)), fMul(e(2, 3), e(3, 1))))),
              fMul(e(1, 3), fSub(fMul(e(2, 1), e(3, 2)), fMul(e(2, 2), e(3, 1))))>>, 1)

Cofactor(m, r, c) == IF (r + c) % 2 = 0 THEN Minor(m, r, c) ELSE fNeg(Minor(m, r, c))

Determinant(m) ==
    fSum(<<fMul(El(m, 0, 0), Cofactor(m, 0, 0)), fMul(El(m, 0, 1), Cofactor(m, 0, 1)),
           fMul(El(m, 0, 2), Cofactor(m, 0, 2)), fMul(El(m, 0, 3), Cofactor(m, 0, 3))>>, 1)

\* d times the transposed cofactors of m
Adjugate(m, d) ==
    Tuple([i \in 1..16 |-> fMul(d, Cofactor(m, (i - 1) \div 4, (i - 1) % 4))], 16)

\* mat4.invert(m): 1 / determinant times the transposed cofactors
mat4Invert(m) == Adjugate(m, fRecip(Determinant(m)))

\* vec4.transformMat4(v, m)
vec4TransformMat4(v, m) ==
    Tuple([r \in 1..4 |->
              fSum(<<fMul(El(m, r - 1, 0), v[1]), fMul(El(m, r - 1, 1), v[2]),
                     fMul(El(m, r - 1, 2), v[3]), fMul(El(m, r - 1, 3), v[4])>>, 1)], 4)

(***************************************************************************)
(* ArcballCamera.  A camera c is the record of its fields.                 *)
(***************************************************************************)
screenDims == <<40, 40>>

zoomSpeed == 8

up == <<0, 1, 0>>

\* Line 33: vec2.create(1.0 / screenDims[0], 1.0 / screenDims[1])
invScreen == <<Frac(1, screenDims[1]), Frac(1, screenDims[2])>>

\* Where the application may put the camera: the eye on the +Z side of the
\* center it looks at.
CameraPlacements ==
    {[eye |-> <<0, 0, 1>>, center |-> <<0, 0, 0>>],
     [eye |-> <<1, 2, 2>>, center |-> <<1, 2, 0>>]}

\* Mouse drags <<prevMouse, curMouse>> in canvas pixels: across and down the
\* middle, onto and past the rim of the ball, and out of the canvas.
Drags ==
    {<< <<20, 20>>, <<40, 20>> >>,
     << <<20, 20>>, <<20, 0>> >>,
     << <<20, 8>>, <<20, 20>> >>,
     << <<0, 20>>, <<20, 0>> >>,
     << <<20, 0>>, <<35, 0>> >>,
     << <<20, 20>>, <<20, -10>> >>}

\* An amount so large that the Float32Array of line 74 holds Infinity for
\* amount * invScreen[1] * zoomSpeed (any |amount| above 1.8e39, such as 1e300).
Huge == Infinity

ZoomAmounts == {Num(-5), Num(5), Huge, fNeg(Huge)}

PanDeltas == {<<8, 0>>, <<-8, 0>>, <<8, -16>>, <<-8, 16>>}

clamp(a, min, max) == IF fLt(a, min) THEN min ELSE IF fGt(a, max) THEN max ELSE a

\* screenToArcball without the lift onto the ball: the point is taken as it is.
screenToArcballFlat(p) == <<p[1], p[2], Num(0), Num(0)>>

screenToArcball(p) ==
    LET dist == vecDot(p, p)
    IN IF fLe(dist, Num(1))
       THEN <<p[1], p[2], fSqrt(fSub(Num(1), dist)), Num(0)>>
       ELSE LET unitP == vecNormalize(p)
            IN <<unitP[1], unitP[2], Num(0), Num(0)>>

\* Line 100, cam being the camera matrix of lines 97-99
WithCamera(c, cam) == [c EXCEPT !.camera = cam, !.invCamera = mat4Invert(cam)]

updateCameraMatrix(c) ==
    WithCamera(c, mat4Mul(c.translation,
                          mat4Mul(mat4FromQuat(c.rotation), c.centerTranslation)))

constructor(eye, center, upDir) ==
    LET veye == Nums(eye)
        vcenter == Nums(center)
        vup == vecNormalize(Nums(upDir))
        zAxis0 == vecSub(vcenter, veye)
        viewDist == vecLen(zAxis0)
        zAxis == vecNormalize(zAxis0)
        xAxis == vecNormalize(vec3Cross(zAxis, vup))
        yAxis == vec3Cross(xAxis, zAxis)
        rotMat == mat3Transpose(<<xAxis[1], xAxis[2], xAxis[3],
                                  yAxis[1], yAxis[2], yAxis[3],
                                  fNeg(zAxis[1]), fNeg(zAxis[2]), fNeg(zAxis[3])>>)
    IN updateCameraMatrix(
          [rotation |-> quatNormalize(quatFromMat(rotMat)),
           translation |-> mat4Translation(<<Num(0), Num(0), fMul(Num(-1), viewDist)>>),
           centerTranslation |-> mat4Invert(mat4Translation(Nums(center))),
           camera |-> mat4Identity,
           invCamera |-> mat4Identity])

\* Lines 55-57 and 59-61: the normalized points of the old (from) and of the
\* new (to) mouse position.
mPrevOf(from, to) ==
    <<clamp(fSub(fMul(fMul(Num(to[1]), Num(2)), invScreen[1]), Num(1)), Num(-1), Num(1)),
      clamp(fSub(Num(1), fMul(fMul(Num(from[2]), Num(2)), invScreen[2])), Num(-1), Num(1))>>

mCurOf(to) ==
    <<clamp(fSub(fMul(fMul(Num(to[1]), Num(2)), invScreen[1]), Num(1)), Num(-1), Num(1)),
      clamp(fSub(Num(1), fMul(fMul(Num(to[2]), Num(2)), invScreen[2])), Num(-1), Num(1))>>

\* rotate(prevMouse, curMouse), the two positions being from and to
rotate(c, from, to) ==
    LET mPrevBall == screenToArcball(mPrevOf(from, to))
        mCurBall == screenToArcball(mCurOf(to))
    IN updateCameraMatrix(
          [c EXCEPT !.rotation = quatMul(mCurBall, quatMul(mPrevBall, c.rotation))])

zoom(c, amount) ==
    LET vt == <<Num(0), Num(0), fMul(fMul(amount, invScreen[2]), Num(zoomSpeed))>>
        moved == mat4Mul(mat4Translation(vt), c.translation)
    IN updateCameraMatrix(
          [c EXCEPT !.translation =
              IF fGe(moved[15], Frac(-1, 5))
              THEN [moved EXCEPT ![15] = Frac(-1, 5)]
              ELSE moved])

pan(c, mouseDelta) ==
    LET delta == <<fMul(fMul(Num(mouseDelta[1]), invScreen[1]), fAbs(c.translation[15])),
                   fMul(fMul(Num(mouseDelta[2]), invScreen[2]), fAbs(c.translation[15])),
                   Num(0), Num(0)>>
        worldDelta == vec4TransformMat4(delta, c.invCamera)
    IN updateCameraMatrix(
          [c EXCEPT !.centerTranslation =
              mat4Mul(mat4Translation(worldDelta), c.centerTranslation)])

(***************************************************************************)
(* The camera as a state machine: the application constructs it and then   *)
(* calls rotate, zoom and pan in any order.  camLog keeps the last two     *)
(* calls, each with the rotation and the centerTranslation it found.       *)
(***************************************************************************)
Cam ==
    [rotation |-> rotation, translation |-> translation,
     centerTranslation |-> centerTranslation, camera |-> camera,
     invCamera |-> invCamera]

CamCall(op, args) ==
    [op |-> op, args |-> args,
     pre |-> [rotation |-> rotation, centerTranslation |-> centerTranslation]]

Logged(call) ==
    IF Len(camLog) < 2 THEN Append(camLog, call) ELSE <<camLog[2], call>>

Becomes(c, call) ==
    /\ rotation' = c.rotation
    /\ translation' = c.translation
    /\ centerTranslation' = c.centerTranslation
    /\ camera' = c.camera
    /\ invCamera' = c.invCamera
    /\ camLog' = Logged(call)
    /\ camCalls' = camCalls + 1
    /\ UNCHANGED ctlVars

CameraInit ==
    /\ ControllerConstructed
    /\ globalT = FALSE
    /\ \E p \in CameraPlacements :
          \E c \in {constructor(p.eye, p.center, up)} :
             /\ rotation = c.rotation
             /\ translation = c.translation
             /\ centerTranslation = c.centerTranslation
             /\ camera = c.camera
             /\ invCamera = c.invCamera
    /\ camLog = <<>>
    /\ camCalls = 0

\* The fractions of the rotation stay within the denominators the model keeps.
CallRotate(drag) ==
    /\ camCalls < MaxCalls
    /\ \E c \in {rotate(Cam, drag[1], drag[2])} :
          /\ \A i \in 1..4 : c.rotation[i].d <= MaxDen
          /\ Becomes(c, CamCall("rotate", drag))

CallZoom(amount) ==
    /\ camCalls < MaxCalls
    /\ \E c \in {zoom(Cam, amount)} : Becomes(c, CamCall("zoom", amount))

CallPan(mouseDelta) ==
    /\ camCalls < MaxCalls
    /\ \E c \in {pan(Cam, mouseDelta)} : Becomes(c, CamCall("pan", mouseDelta))

CameraNext ==
    \/ \E drag \in Drags : CallRotate(drag)
    \/ \E amount \in ZoomAmounts : CallZoom(amount)
    \/ \E mouseDelta \in PanDeltas : CallPan(mouseDelta)

SpecCamera == CameraInit /\ [][CameraNext]_vars

(***************************************************************************)
(* Properties.  An entry of passLog is one handler invocation: the event,  *)
(* the fields before (pre) and after (post) it, the user callbacks it      *)
(* invoked and the exception it threw.                                     *)
(***************************************************************************)
SeqsOf(queue) == [k \in 1..Len(queue) |-> queue[k].seq]

\* The number of the last event that a processEvents call found pending.
LastSeen == IF pending = <<>> THEN 0 ELSE pending[Len(pending)].seq

IsEndOf(e) == e.callback = "onTouchEnd"

IsMoveOf(e) == e.callback = "onTouchMove"

IsWheelOf(e) == e.callback = "onMouseWheel"

\* C1: every enqueued event has its handler invoked exactly once, by the
\* first processEvents call that follows its arrival: an event a pass has
\* found pending was dispatched once, never twice and never zero times, and
\* an event that arrived after the last pass was not dispatched yet.
C1_DispatchedExactlyOnce ==
    \A i \in 1..arrived : dispatched[i] = (IF i <= LastSeen THEN 1 ELSE 0)

\* C2: a processEvents pass dispatches the events it finds pending in their
\* arrival order, each one, none coalesced, and leaves none of them in the
\* queue: what is queued after a pass arrived after it.
C2_PassDrainsInOrder ==
    /\ SeqsOf(passLog) = SeqsOf(pending)
    /\ \A k \in 1..Len(registeredEvents) : registeredEvents[k].seq > LastSeen

\* C3: the arrival of a raw input event only appends one entry to the pending
\* queue: touches, prevMouse and curMouse are unchanged and no user callback
\* is invoked, however many events arrive between two passes.
C3_ArrivalOnlyEnqueues ==
    [][arrived' = arrived + 1 =>
          /\ touches' = touches
          /\ prevMouse' = prevMouse
          /\ curMouse' = curMouse
          /\ invoked' = <<>>
          /\ Len(registeredEvents') = Len(registeredEvents) + 1
          /\ SubSeq(registeredEvents', 1, Len(registeredEvents)) = registeredEvents
          /\ registeredEvents'[Len(registeredEvents')].seq = arrived + 1]_vars

\* C4: the identifiers held in touches are exactly those for which a
\* touch-start has been processed with no later touch-end / touch-cancel
\* processed; a touch-move never adds an identifier.
C4_TouchesAreLiveContacts == Keys(touches) = live

\* C5: processing a touch-end / touch-cancel whose identifier is not in
\* touches is a no-op: the fields are left unchanged, no callback is invoked,
\* nothing is thrown; and after any touch-end its identifiers are absent, so
\* processing it a second time is such a no-op.
C5_EndOfAbsentIsNoOp ==
    \A j \in 1..Len(passLog) :
        LET e == passLog[j]
        IN IsEndOf(e) =>
              /\ ChangedIds(e.jsEvent) \cap Keys(e.post.touches) = {}
              /\ e.fault = "none"
              /\ e.calls = <<>>
              /\ e.post.prevMouse = e.pre.prevMouse
              /\ e.post.curMouse = e.pre.curMouse
              /\ (ChangedIds(e.jsEvent) \cap Keys(e.pre.touches) = {}
                    => e.post = e.pre)

\* C5, its case: one pass processed the same touch-end twice while another
\* contact stayed tracked: the first removed the identifier, the second
\* found it absent.
C5_Witness ==
    \E j \in 1..Len(passLog) : \E k \in 1..Len(passLog) :
        /\ j < k
        /\ IsEndOf(passLog[j]) /\ IsEndOf(passLog[k])
        /\ passLog[j].jsEvent = passLog[k].jsEvent
        /\ ChangedIds(passLog[j].jsEvent) \subseteq Keys(passLog[j].pre.touches)
        /\ ChangedIds(passLog[k].jsEvent) \cap Keys(passLog[k].pre.touches) = {}
        /\ passLog[k].pre.touches # EmptyObject
        /\ passLog[k].post = passLog[k].pre

(***************************************************************************)
(* The two-finger gesture as the specification states it, for the handler  *)
(* invocation e of a touch-move: the two tracked contacts are the first    *)
(* two of touches, and a contact's motion is its new position minus its    *)
(* own old position.                                                       *)
(***************************************************************************)
ContactA(e) == e.pre.touches[1]

ContactB(e) == e.pre.touches[2]

ListedAt(e, id) ==
    {k \in 1..Len(e.jsEvent.changedTouches) :
        e.jsEvent.changedTouches[k].identifier = id}

\* Where the event puts contact c: its last listed position, or where it was.
NewPosition(e, c) ==
    IF ListedAt(e, c.key) = {} THEN c.val
    ELSE LET k == CHOOSE m \in ListedAt(e, c.key) :
                     \A n \in ListedAt(e, c.key) : n <= m
         IN <<e.jsEvent.changedTouches[k].clientX - rect.left,
              e.jsEvent.changedTouches[k].clientY - rect.top>>

Motion(e, c) == sub(NewPosition(e, c), c.val)

PinchAlignment(e, c) == normDot(sub(ContactB(e).val, ContactA(e).val), Motion(e, c))

PanAlignment(e, c) ==
    normDot(lerpHalves(Motion(e, ContactA(e)), Motion(e, ContactB(e))), Motion(e, c))

PinchCondition(e) ==
    /\ AbsGtHalf(PinchAlignment(e, ContactA(e)))
    /\ AbsGtHalf(PinchAlignment(e, ContactB(e)))
    /\ Sign(PinchAlignment(e, ContactA(e))) # Sign(PinchAlignment(e, ContactB(e)))

PanCondition(e) ==
    /\ AbsGtHalf(PanAlignment(e, ContactA(e)))
    /\ AbsGtHalf(PanAlignment(e, ContactB(e)))
    /\ Sign(PanAlignment(e, ContactA(e))) = Sign(PanAlignment(e, ContactB(e)))

\* newDistance - oldDistance of the two contacts, as the pair of squares.
DistanceChange(e) ==
    [newDist2 |-> pointDistSq(NewPosition(e, ContactA(e)), NewPosition(e, ContactB(e))),
     oldDist2 |-> pointDistSq(ContactA(e).val, ContactB(e).val)]

\* The average of the two motions with its Y negated, in half pixels.
FlippedAverageMotion(e) ==
    <<Motion(e, ContactA(e))[1] + Motion(e, ContactB(e))[1],
      0 - (Motion(e, ContactA(e))[2] + Motion(e, ContactB(e))[2])>>

CallsTo(e, fn) == {k \in 1..Len(e.calls) : e.calls[k].fn = fn}

\* The spec's scenarios: contacts at (0,100) and (100,100).
AtScenarioStart(e) ==
    /\ Len(e.pre.touches) = 2
    /\ ContactA(e).val = <<0, 100>>
    /\ ContactB(e).val = <<100, 100>>

\* C6: with two contacts active, a processed touch-move whose two pinch
\* alignments exceed 0.5 in magnitude with opposite signs invokes the pinch
\* callback exactly once, with newDistance - oldDistance of the two touches;
\* (0,100), (100,100) moving to (10,100), (90,100) gives -20.
C6_PinchInvoked ==
    \A j \in 1..Len(passLog) :
        LET e == passLog[j]
        IN (IsMoveOf(e) /\ Len(e.pre.touches) = 2 /\ "pinch" \in callbacks
               /\ PinchCondition(e)) =>
              /\ Cardinality(CallsTo(e, "pinch")) = 1
              /\ \A k \in CallsTo(e, "pinch") : e.calls[k].args = <<DistanceChange(e)>>
              /\ (AtScenarioStart(e)
                    /\ NewPosition(e, ContactA(e)) = <<10, 100>>
                    /\ NewPosition(e, ContactB(e)) = <<90, 100>>)
                 => \A k \in CallsTo(e, "pinch") :
                       /\ IsSquare(e.calls[k].args[1].newDist2)
                       /\ IsSquare(e.calls[k].args[1].oldDist2)
                       /\ Sqrt(e.calls[k].args[1].newDist2)
                             - Sqrt(e.calls[k].args[1].oldDist2) = -20

\* C7: with two contacts active, a processed touch-move that is not a pinch
\* and whose two pan alignments exceed 0.5 in magnitude with the same sign
\* invokes twoFingerDrag exactly once, with the average of the two motions,
\* Y negated; two touches both moving by (+5,+5) give (5,-5), which is
\* (10,-10) in half pixels.
C7_PanInvoked ==
    \A j \in 1..Len(passLog) :
        LET e == passLog[j]
        IN (IsMoveOf(e) /\ Len(e.pre.touches) = 2 /\ "twoFingerDrag" \in callbacks
               /\ ~PinchCondition(e) /\ PanCondition(e)) =>
              /\ Cardinality(CallsTo(e, "twoFingerDrag")) = 1
              /\ \A k \in CallsTo(e, "twoFingerDrag") :
                    e.calls[k].args = <<FlippedAverageMotion(e)>>
              /\ (Motion(e, ContactA(e)) = <<5, 5>> /\ Motion(e, ContactB(e)) = <<5, 5>>)
                 => \A k \in CallsTo(e, "twoFingerDrag") :
                       e.calls[k].args = << <<10, -10>> >>

\* C8: a multi-touch touch-move invokes at most one of pinch and
\* twoFingerDrag, and neither when neither the pinch condition nor the pan
\* condition holds (as when one of the two tracked touches did not move).
C8_AtMostOneGesture ==
    \A j \in 1..Len(passLog) :
        LET e == passLog[j]
        IN (IsMoveOf(e) /\ Len(e.pre.touches) >= 2) =>
              /\ Cardinality(CallsTo(e, "pinch") \cup CallsTo(e, "twoFingerDrag")) <= 1
              /\ (~PinchCondition(e) /\ ~PanCondition(e))
                 => CallsTo(e, "pinch") \cup CallsTo(e, "twoFingerDrag") = {}

\* C9: after a touch-move is processed with two or more active contacts,
\* touches holds the new position of every changed contact of the event,
\* whatever the classification was.
C9_MultiMoveStoresPositions ==
    \A j \in 1..Len(passLog) :
        LET e == passLog[j]
        IN (IsMoveOf(e) /\ Len(e.pre.touches) >= 2) =>
              \A k \in 1..Len(e.jsEvent.changedTouches) :
                 LET t == e.jsEvent.changedTouches[k]
                 IN /\ HasKey(e.post.touches, t.identifier)
                    /\ Get(e.post.touches, t.identifier)
                          = NewPosition(e, [key |-> t.identifier, val |-> undefined])

\* C10: a processed wheel event with scroll delta d invokes the wheel
\* callback exactly once with -d (delta -50 gives +50) and changes neither
\* touches nor prevMouse / curMouse; with no wheel callback it is a no-op.
C10_WheelNegatesDelta ==
    \A j \in 1..Len(passLog) :
        LET e == passLog[j]
        IN IsWheelOf(e) =>
              /\ e.post = e.pre
              /\ e.fault = "none"
              /\ IF "wheel" \in callbacks
                 THEN /\ Len(e.calls) = 1
                      /\ e.calls[1].fn = "wheel"
                      /\ e.calls[1].args = <<0 - e.jsEvent.deltaY>>
                      /\ (e.jsEvent.deltaY = -50 => e.calls[1].args = <<50>>)
                 ELSE e.calls = <<>>

\* C10, its case: a wheel event with delta -50 was processed while a contact
\* was tracked and the mouse had moved, and the wheel callback received +50.
C10_Witness ==
    \E j \in 1..Len(passLog) :
        /\ IsWheelOf(passLog[j])
        /\ passLog[j].jsEvent.deltaY = -50
        /\ passLog[j].calls = <<[fn |-> "wheel", args |-> <<50>>]>>
        /\ passLog[j].pre.touches # EmptyObject
        /\ passLog[j].pre.curMouse # <<0, 0>>

IsStartOf(e) == e.callback = "onTouchStart"

GestureCalls(e) == CallsTo(e, "pinch") \cup CallsTo(e, "twoFingerDrag")

\* A touch-move of the one active contact and of nothing else.
IsSingleFingerMove(e) ==
    /\ IsMoveOf(e)
    /\ Len(e.pre.touches) = 1
    /\ ChangedIds(e.jsEvent) = {e.pre.touches[1].key}

\* C11: a processed touch-start records every changed contact in touches and
\* invokes press exactly once, with the position of the new contact, exactly
\* when it carries one changed contact and press is registered; with two or
\* more new contacts press is invoked zero times.
C11_PressOnSingleStart ==
    \A j \in 1..Len(passLog) :
        LET e == passLog[j]
            list == e.jsEvent.changedTouches
        IN IsStartOf(e) =>
              /\ e.fault = "none"
              /\ \A k \in 1..Len(list) :
                    /\ HasKey(e.post.touches, list[k].identifier)
                    /\ Get(e.post.touches, list[k].identifier)
                          = <<list[k].clientX - rect.left, list[k].clientY - rect.top>>
              /\ IF Len(list) = 1 /\ "press" \in callbacks
                 THEN e.calls = <<[fn |-> "press",
                                   args |-> <<Get(e.post.touches, list[1].identifier)>>]>>
                 ELSE e.calls = <<>>

\* C11, its case: with press registered, one pass processed a touch-start of
\* one contact, which pressed, and a touch-start of two, which did not.
C11_Witness ==
    /\ "press" \in callbacks
    /\ \E j, k \in 1..Len(passLog) :
          /\ IsStartOf(passLog[j]) /\ IsStartOf(passLog[k])
          /\ Len(passLog[j].jsEvent.changedTouches) = 1
          /\ CallsTo(passLog[j], "press") # {}
          /\ Len(passLog[k].jsEvent.changedTouches) = 2
          /\ passLog[k].calls = <<>>
          /\ Len(passLog[k].post.touches) = 2

\* C17: a processed touch-move is routed by the number of active contacts:
\* with none it is idle (no callback, no fault), with one it invokes neither
\* gesture callback, and a gesture callback is invoked only with two or more.
C17_RoutedByContactCount ==
    \A j \in 1..Len(passLog) :
        LET e == passLog[j]
        IN IsMoveOf(e) =>
              /\ Len(e.pre.touches) = 0 => (e.fault = "none" /\ e.calls = <<>>)
              /\ Len(e.pre.touches) = 1 => GestureCalls(e) = {}
              /\ GestureCalls(e) # {} => Len(e.pre.touches) >= 2

\* C18: while exactly one contact is active, a processed touch-move of that
\* contact invokes mousemove exactly once with (stored position, new
\* position), invokes neither pinch nor twoFingerDrag, and stores the new
\* position; over consecutive such moves the previous position of each call
\* is the current position of the call before it.
C18_SingleFingerDrag ==
    \A j \in 1..Len(passLog) :
        LET e == passLog[j]
        IN IsSingleFingerMove(e) =>
              /\ e.fault = "none"
              /\ e.calls = IF "mousemove" \in callbacks
                           THEN <<[fn |-> "mousemove",
                                   args |-> <<e.pre.touches[1].val,
                                              NewPosition(e, e.pre.touches[1])>>]>>
                           ELSE <<>>
              /\ e.post.touches = <<[key |-> e.pre.touches[1].key,
                                     val |-> NewPosition(e, e.pre.touches[1])]>>
              /\ (j < Len(passLog) /\ IsSingleFingerMove(passLog[j + 1])
                    /\ "mousemove" \in callbacks)
                 => passLog[j + 1].calls[1].args[1] = e.calls[1].args[2]

\* C18, its case: two single-finger moves of the same contact were processed
\* one after the other with mousemove registered, the first one a real move.
C18_Witness ==
    /\ "mousemove" \in callbacks
    /\ \E j \in 1..Len(passLog) :
          /\ j < Len(passLog)
          /\ IsSingleFingerMove(passLog[j])
          /\ IsSingleFingerMove(passLog[j + 1])
          /\ passLog[j].calls # <<>>
          /\ passLog[j].calls[1].args[1] # passLog[j].calls[1].args[2]
          /\ passLog[j + 1].calls # <<>>

\* C19: whenever the pinch condition holds for a multi-touch move,
\* twoFingerDrag is not invoked for that event, whether or not a pinch handler
\* is registered and whether or not the pan condition holds too.
C19_PinchFirst ==
    \A j \in 1..Len(passLog) :
        LET e == passLog[j]
        IN (IsMoveOf(e) /\ Len(e.pre.touches) >= 2 /\ PinchCondition(e))
              => CallsTo(e, "twoFingerDrag") = {}

\* C20: in the multi-touch path the old and the new position lists are
\* aligned by identifier: entry i of both, for the first two, belongs to one
\* and the same contact.
C20_AlignedByIdentifier ==
    \A j \in 1..Len(passLog) :
        LET e == passLog[j]
        IN (IsMoveOf(e) /\ Len(e.pre.touches) >= 2 /\ e.fault = "none") =>
              \A i \in 1..2 :
                 curTouchesOf(e.pre, e.jsEvent)[i].key = e.pre.touches[i].key

(***************************************************************************)
(* The camera's properties, over the calls camLog remembers.               *)
(***************************************************************************)
LastCall == camLog[Len(camLog)]

\* JavaScript's == on numbers: NaN equals nothing, itself included.
SameNumbers(a, b) ==
    /\ Len(a) = Len(b)
    /\ \A i \in 1..Len(a) : ~isNaN(a[i]) /\ a[i] = b[i]

\* The normalized point the specification gives for a pixel position:
\* (clamp(2 x / width - 1, -1, 1), clamp(1 - 2 y / height, -1, 1)).
Ndc(p) ==
    <<clamp(fSub(fDiv(Num(2 * p[1]), Num(screenDims[1])), Num(1)), Num(-1), Num(1)),
      clamp(fSub(Num(1), fDiv(Num(2 * p[2]), Num(screenDims[2]))), Num(-1), Num(1))>>

\* C12: after each zoom call, whatever the sign and the magnitude of its
\* amount and of the amounts before it, the depth component translation[14]
\* is at most -0.2.
C12_ZoomKeepsDistance ==
    (camLog # <<>> /\ LastCall.op = "zoom") => fLe(translation[15], Frac(-1, 5))

\* C13: rotate(prevMouse, curMouse) normalizes each of the two positions by
\* its own coordinates and sets rotation to
\* arcball(current) * arcball(previous) * rotation, so that a purely
\* horizontal drag changes the orientation.
C13_RotateUsesBothPoints ==
    (camLog # <<>> /\ LastCall.op = "rotate") =>
        LET from == LastCall.args[1]
            to == LastCall.args[2]
            before == LastCall.pre.rotation
        IN /\ rotation = quatMul(screenToArcball(Ndc(to)),
                                 quatMul(screenToArcball(Ndc(from)), before))
           /\ (from[2] = to[2] /\ Ndc(from) # Ndc(to))
                 => (rotation # before /\ rotation # vecScale(before, Num(-1)))

\* C14: pan(d) followed at once by pan(-d) returns centerTranslation to the
\* value it had before the first of the two, for every d and camera state.
C14_PanRoundTrip ==
    (/\ Len(camLog) = 2
     /\ camLog[1].op = "pan" /\ camLog[2].op = "pan"
     /\ camLog[2].args = <<0 - camLog[1].args[1], 0 - camLog[1].args[2]>>)
        => SameNumbers(centerTranslation, camLog[1].pre.centerTranslation)

\* C15: after construction and after every rotate, zoom and pan, camera is
\* translation * rotation * centerTranslation of the current state and
\* invCamera is the inverse of camera.
C15_DerivedMatricesFresh ==
    /\ SameNumbers(camera, mat4Mul(translation,
                      mat4Mul(mat4FromQuat(rotation), centerTranslation)))
    /\ SameNumbers(mat4Mul(camera, invCamera), mat4Identity)

\* C16: after any sequence of rotate calls the rotation quaternion has
\* length 1: both arcball quaternions of a rotate call have unit length and a
\* zero scalar part, and composing them keeps the length.
C16_RotationUnitLength ==
    /\ vecDot(rotation, rotation) = Num(1)
    /\ (camLog # <<>> /\ LastCall.op = "rotate") =>
          LET mPrevBall == screenToArcball(mPrevOf(LastCall.args[1], LastCall.args[2]))
              mCurBall == screenToArcball(mCurOf(LastCall.args[2]))
          IN /\ vecDot(mPrevBall, mPrevBall) = Num(1) /\ mPrevBall[4] = Num(0)
             /\ vecDot(mCurBall, mCurBall) = Num(1) /\ mCurBall[4] = Num(0)

\* C16, its case: two rotate calls in a row, the first through the inside of
\* the ball leaving a rotation that is no axis-aligned one, the second
\* through points outside the ball.
C16_Witness ==
    /\ Len(camLog) = 2
    /\ camLog[1].op = "rotate" /\ camLog[2].op = "rotate"
    /\ fLt(vecDot(mPrevOf(camLog[1].args[1], camLog[1].args[2]),
                  mPrevOf(camLog[1].args[1], camLog[1].args[2])), Num(1))
    /\ fGt(vecDot(mCurOf(camLog[2].args[2]), mCurOf(camLog[2].args[2])), Num(1))
    /\ \E i \in 1..4 : rotation[i].d > 1

====
